---- MODULE Spec2Model ----
(***************************************************************************)
(* A model of the MGnify BIOM harvester, src/mgnify2.py.                   *)
(*                                                                         *)
(* The module holds seven state machines over one set of variables:        *)
(*   SpecGetJson   get_json: one call, response by response                *)
(*   SpecIndex     next_index_for_class over a class directory             *)
(*   SpecDownload  download_file_atomic: one call, request by request      *)
(*   Spec          harvest_class: runs of the harvester over one class     *)
(*   SpecMain      main: the loop over the classes of BIOMES               *)
(*   SpecFind      find_biom_or_tsv on a downloads listing                 *)
(*   SpecSig       compute_biom_signature on two orderings of a table      *)
(* The variables of the machines a specification does not drive stay at    *)
(* their idle values.                                                      *)
(***************************************************************************)
EXTENDS Integers, Sequences, FiniteSets, TLC

VARIABLES
    \* ---- get_json (src/mgnify2.py:72-82)
    gj_pc,        \* "loop": inside the for loop; "done": the call has ended
    gj_a,         \* the loop variable a of get_json
    gj_script,    \* the responses the server gives to the requests, in order
    gj_hist,      \* the responses the call has received, in order
    gj_result,    \* how the call ended: [kind, val]
    \* ---- next_index_for_class (src/mgnify2.py:59-70)
    ix_isdir,     \* os.path.isdir(class_dir)
    ix_names,     \* os.listdir(class_dir): a set of file names
    ix_ret,       \* what the last call returned (0: no call yet)
    ix_prev,      \* what the call before it returned
    ix_how,       \* what happened between those two calls
    ix_since,     \* what happened to the directory since the last call
    \* ---- download_file_atomic (src/mgnify2.py:105-129)
    dl_pc,        \* "req" | "writing" | "written" | "done"
    dl_url,       \* the url argument: a sequence of path segments
    dl_vi,        \* the place of candidate in _try_url_variants(url)
    dl_a,         \* the loop variable a
    dl_chunks,    \* the chunks written to tmp_path in this attempt
    dl_tmp,       \* the file at tmp_path: absent | stale | partial | full
    dl_dest,      \* the file at out_path: absent | stale | partial | full
    dl_tried,     \* the URLs requested, in the order of their first request
    dl_last,      \* the last response: [v: place of the variant, resp]
    dl_result,    \* "none" | "True" | "False"
    dl_used,      \* the second component of the result
    \* ---- harvest_class (src/mgnify2.py:227-376) on one class
    pc,           \* idle | pages | samples | runs | analyses | returned | raised
    biom_lib,     \* whether `from biom import load_table` succeeds (line 142)
    n_target,     \* the n_target argument
    dir,          \* the class directory: file name -> content
    disk_state,   \* the file .state.json of the class directory
    state,        \* the dict state: seen_links, biom_sig_to_name
    saved,        \* the local saved
    next_idx,     \* the local next_idx
    page_i,       \* the local page_i
    has_next,     \* whether iter_pages holds a url for its next request
    run_cnt,      \* the local run_cnt
    an_cnt,       \* the local an_cnt
    ret,          \* the value the last finished call returned (-1: none)
    net_used,     \* whether this call has issued a network request
    saved0,       \* the saved count this call derived on resume
    committed,    \* the candidates committed since the initial state
    init_dir,     \* the class directory of the initial state
    ev,           \* the last step: [kind, link]
    \* ---- main (src/mgnify2.py:378-392)
    mn_pc,        \* off | loop | finally | finally_raise | done | escaped
    mn_total,     \* the local total
    mn_calls,     \* how harvest_class ended for each class started, in order
    mn_log,       \* the lines main has printed: [cls, line]
    \* ---- find_biom_or_tsv (src/mgnify2.py:183-197)
    fb_pc,        \* "call": not yet called; "done": it has returned
    fb_data,      \* downloads["data"]: a sequence of items [alias, link]
    fb_out,       \* the four results and the candidate link of line 296
    \* ---- compute_biom_signature (src/mgnify2.py:132-180)
    sg_pc,        \* "call": not yet called; "done": both digests computed
    sg_in,        \* two stored tables: [obs, samp, m]
    sg_out        \* their two digests

gjVars == <<gj_pc, gj_a, gj_script, gj_hist, gj_result>>
ixVars == <<ix_isdir, ix_names, ix_ret, ix_prev, ix_how, ix_since>>

dlVars == <<dl_pc, dl_url, dl_vi, dl_a, dl_chunks, dl_tmp, dl_dest, dl_tried,
            dl_last, dl_result, dl_used>>

hvVars == <<pc, biom_lib, n_target, dir, disk_state, state, saved, next_idx,
            page_i, has_next, run_cnt, an_cnt, ret, net_used, saved0,
            committed, init_dir, ev>>

mnVars == <<mn_pc, mn_total, mn_calls, mn_log>>

fbVars == <<fb_pc, fb_data, fb_out>>

sgVars == <<sg_pc, sg_in, sg_out>>

vars == <<gjVars, ixVars, dlVars, hvVars, mnVars, fbVars, sgVars>>

(***************************************************************************)
(* get_json                                                                *)
(***************************************************************************)

\* retries=5, the default of get_json and of download_file_atomic
Retries == 5

\* The JSON bodies a 200 response can carry: a page with data, and {}.
Bodies == {"page", "empty"}

\* What session.get can give: a 200 with a JSON body, a 429, another
\* non-2xx status (raise_for_status raises), a transport error (session.get
\* raises), a 200 whose body is no JSON (r.json() raises).
FailKinds == {"status", "transport", "badjson"}

\* The responses of the model.
Responses ==
    {[kind |-> "ok", body |-> b] : b \in Bodies}
       \cup {[kind |-> k, body |-> "none"] : k \in FailKinds \cup {"r429"}}

NoResult == [kind |-> "none", val |-> "none"]

GjIdle ==
    /\ gj_pc = "idle"
    /\ gj_a = 0
    /\ gj_script = <<>>
    /\ gj_hist = <<>>
    /\ gj_result = NoResult

IxIdle ==
    /\ ix_isdir = FALSE
    /\ ix_names = {}
    /\ ix_ret = 0
    /\ ix_prev = 0
    /\ ix_how = "none"
    /\ ix_since = "none"

NoUrl == <<>>

NoResponse == [v |-> 0, resp |-> "none"]

DlIdle ==
    /\ dl_pc = "idle"
    /\ dl_url = NoUrl
    /\ dl_vi = 0
    /\ dl_a = 0
    /\ dl_chunks = 0
    /\ dl_tmp = "absent"
    /\ dl_dest = "absent"
    /\ dl_tried = <<>>
    /\ dl_last = NoResponse
    /\ dl_result = "none"
    /\ dl_used = NoUrl

\* No link: biom_url or tsv_url is None.
NoLink == 0

NoEvent == [kind |-> "none", link |-> NoLink]

EmptyState == [seen_links |-> {}, biom_sig_to_name |-> <<>>]

MissingFile == [kind |-> "missing", seen_links |-> <<>>, biom_sig_to_name |-> <<>>]

HvIdle ==
    /\ pc = "off"
    /\ biom_lib = FALSE
    /\ n_target = 0
    /\ dir = <<>>
    /\ disk_state = MissingFile
    /\ state = EmptyState
    /\ saved = 0
    /\ next_idx = 0
    /\ page_i = 0
    /\ has_next = FALSE
    /\ run_cnt = 0
    /\ an_cnt = 0
    /\ ret = -1
    /\ net_used = FALSE
    /\ saved0 = 0
    /\ committed = 0
    /\ init_dir = <<>>
    /\ ev = NoEvent

MnIdle ==
    /\ mn_pc = "off"
    /\ mn_total = 0
    /\ mn_calls = <<>>
    /\ mn_log = <<>>

FbIdle ==
    /\ fb_pc = "off"
    /\ fb_data = <<>>
    /\ fb_out = <<>>

SgIdle ==
    /\ sg_pc = "off"
    /\ sg_in = <<>>
    /\ sg_out = <<>>

InitGetJson ==
    /\ gj_pc = "loop"
    /\ gj_a = 0
    /\ gj_script \in [1..Retries -> Responses]
    /\ gj_hist = <<>>
    /\ gj_result = NoResult
    /\ IxIdle
    /\ DlIdle
    /\ HvIdle
    /\ MnIdle
    /\ FbIdle
    /\ SgIdle

\* The response session.get gives to the next request of the call.
GjResponse == gj_script[Len(gj_hist) + 1]

\* line 75, 78-79: a 200 with a JSON body: return r.json()
GetJsonOk ==
    /\ gj_pc = "loop"
    /\ GjResponse.kind = "ok"
    /\ gj_hist' = Append(gj_hist, GjResponse)
    /\ gj_result' = [kind |-> "return", val |-> GjResponse.body]
    /\ gj_pc' = "done"
    /\ UNCHANGED <<gj_a, gj_script>>
    /\ UNCHANGED <<ixVars, dlVars, hvVars, mnVars, fbVars, sgVars>>

\* The mutant of GetJson429 for C7: break instead of continue.
GetJson429_break ==
    /\ gj_pc = "loop"
    /\ GjResponse.kind = "r429"
    /\ gj_hist' = Append(gj_hist, GjResponse)
    /\ gj_a' = gj_a + 1
    /\ gj_pc' = "done"
    /\ gj_result' = [kind |-> "return", val |-> "None"]
    /\ UNCHANGED gj_script
    /\ UNCHANGED <<ixVars, dlVars, hvVars, mnVars, fbVars, sgVars>>

\* line 76-77: a 429: sleep and continue with the next a; when a was the last
\* value of range(retries) the loop ends and the function falls off its end,
\* which returns None.
GetJson429 ==
    /\ gj_pc = "loop"
    /\ GjResponse.kind = "r429"
    /\ gj_hist' = Append(gj_hist, GjResponse)
    /\ gj_a' = gj_a + 1
    /\ IF gj_a + 1 < Retries
         THEN /\ gj_pc' = "loop"
              /\ UNCHANGED gj_result
         ELSE /\ gj_pc' = "done"
              /\ gj_result' = [kind |-> "return", val |-> "None"]
    /\ UNCHANGED gj_script
    /\ UNCHANGED <<ixVars, dlVars, hvVars, mnVars, fbVars, sgVars>>

\* line 80-82: an exception of session.get, raise_for_status or r.json():
\* re-raised when a == retries - 1, else sleep and go on.
GetJsonFail ==
    /\ gj_pc = "loop"
    /\ GjResponse.kind \in FailKinds
    /\ gj_hist' = Append(gj_hist, GjResponse)
    /\ IF gj_a = Retries - 1
         THEN /\ gj_pc' = "done"
              /\ gj_result' = [kind |-> "raise", val |-> "none"]
              /\ UNCHANGED gj_a
         ELSE /\ gj_pc' = "loop"
              /\ gj_a' = gj_a + 1
              /\ UNCHANGED gj_result
    /\ UNCHANGED gj_script
    /\ UNCHANGED <<ixVars, dlVars, hvVars, mnVars, fbVars, sgVars>>

NextGetJson ==
    \/ GetJsonOk
    \/ GetJson429
    \/ GetJsonFail

SpecGetJson == InitGetJson /\ [][NextGetJson]_vars

\* The scripted response i is a failure: anything but a 200 with a JSON body.
GjFailed(i) == gj_script[i].kind # "ok"

\* C6: get_json issues at most 5 requests per call, and a call whose 5
\* attempts all failed (transport errors, non-2xx statuses, 429s, in any
\* mix) ends in a raised error, never in a normal return.
C6_FiveFailuresRaise ==
    /\ Len(gj_hist) <= 5
    /\ (gj_pc = "done" /\ \A i \in 1..5 : GjFailed(i))
          => gj_result.kind = "raise"

\* C7: when the server answers k 429 responses (1 <= k <= 4) and then a 200,
\* get_json returns the JSON body of that 200 response.
C7_429ThenOkReturnsBody ==
    \A k \in 1..4 :
        ( /\ gj_pc = "done"
          /\ \A i \in 1..k : gj_script[i].kind = "r429"
          /\ gj_script[k + 1].kind = "ok" )
        => gj_result = [kind |-> "return", val |-> gj_script[k + 1].body]

C7_Witness ==
    /\ gj_pc = "done"
    /\ Len(gj_hist) = 5
    /\ \A i \in 1..4 : gj_hist[i].kind = "r429"
    /\ gj_hist[5].kind = "ok"
    /\ gj_result = [kind |-> "return", val |-> "page"]

(***************************************************************************)
(* File names and next_index_for_class                                     *)
(***************************************************************************)

\* A file name of a class directory is stem_idx.ext, held as a record:
\* forest_3.biom is [stem |-> "forest", idx |-> 3, ext |-> "biom"], and
\* __tmp_forest_3.tsv is [stem |-> "__tmp_forest", idx |-> 3, ext |-> "tsv"].
FName(stem, idx, ext) == [stem |-> stem, idx |-> idx, ext |-> ext]

\* The class the harvester is run on (a key of BIOMES, lower case).
ClassName == "forest"

\* str.lower() on the strings of the model.
Lower(s) ==
    CASE s = "FOREST"  -> "forest"
      [] s = "BIOM"    -> "biom"
      [] s = "X.BIOM"  -> "x.biom"
      [] s = "OTU.TSV" -> "otu.tsv"
      [] OTHER         -> s

\* The stems [a-z_]+ matches under re.IGNORECASE: letters and underscores.
AlphaStems == {"forest", "FOREST", "tundra", "__tmp_forest"}

\* IDX_RE.match(fname), line 31: ^(?P<cls>[a-z_]+)_(?P<idx>\d+)\.biom$ with
\* re.IGNORECASE.
IdxReMatches(f) == f.stem \in AlphaStems /\ Lower(f.ext) = "biom"

Max2(x, y) == IF x >= y THEN x ELSE y

\* The for loop of next_index_for_class, lines 60-69, over the names left.
RECURSIVE IndexLoop(_, _, _)
IndexLoop(left, class_name, max_idx) ==
    IF left = {} THEN max_idx
    ELSE LET fname == CHOOSE f \in left : TRUE
             rest == left \ {fname}
         IN  IF ~IdxReMatches(fname)
               THEN IndexLoop(rest, class_name, max_idx)
             ELSE IF Lower(fname.stem) # Lower(class_name)
               THEN IndexLoop(rest, class_name, max_idx)
             ELSE IndexLoop(rest, class_name, Max2(max_idx, fname.idx))

\* The mutant of next_index_for_class for C4: the number of matching files
\* plus one instead of the largest index plus one.
next_index_by_count(isdir, names, class_name) ==
    IF ~isdir THEN 1
    ELSE Cardinality({f \in names : IdxReMatches(f)
                        /\ Lower(f.stem) = Lower(class_name)}) + 1

\* next_index_for_class(class_dir, class_name), lines 59-70.
next_index_for_class(isdir, names, class_name) ==
    IF ~isdir THEN 1
    ELSE IndexLoop(names, class_name, 0) + 1

\* The largest index a directory of the model starts with.
MaxIdx == 5

\* Files that are not output files of the class: another class's table, a
\* leftover temporary download, a leftover temporary text table, a name whose
\* stem holds a digit.
NoiseNames ==
    { FName("tundra", 9, "biom"), FName("forest", 9, "biom.tmp"),
      FName("__tmp_forest", 9, "tsv"), FName("soil2", 9, "biom") }

InitIndex ==
    /\ ix_isdir \in BOOLEAN
    /\ \E idxs \in SUBSET (1..MaxIdx), noise \in SUBSET NoiseNames,
          upper \in SUBSET {FName("FOREST", 2, "BIOM")} :
          ix_names = IF ix_isdir
                       THEN {FName(ClassName, i, "biom") : i \in idxs}
                               \cup noise \cup upper
                       ELSE {}
    /\ ix_ret = 0
    /\ ix_prev = 0
    /\ ix_how = "none"
    /\ ix_since = "none"
    /\ GjIdle
    /\ DlIdle
    /\ HvIdle
    /\ MnIdle
    /\ FbIdle
    /\ SgIdle

\* A call of next_index_for_class(class_dir, class_name).
IxCall ==
    /\ ix_ret' = next_index_for_class(ix_isdir, ix_names, ClassName)
    /\ ix_prev' = ix_ret
    /\ ix_how' = ix_since
    /\ ix_since' = "same"
    /\ UNCHANGED <<ix_isdir, ix_names>>
    /\ UNCHANGED <<gjVars, dlVars, hvVars, mnVars, fbVars, sgVars>>

\* harvest_class commits a file under the index the last call returned
\* (lines 231, 302, 325: out_name = f"{class_name}_{next_idx}.biom").
IxCommit ==
    /\ ix_ret # 0
    /\ ix_since = "same"
    /\ ix_ret <= MaxIdx + 1
    /\ ix_isdir' = TRUE
    /\ ix_names' = ix_names \cup {FName(ClassName, ix_ret, "biom")}
    /\ ix_since' = "committed"
    /\ UNCHANGED <<ix_ret, ix_prev, ix_how>>
    /\ UNCHANGED <<gjVars, dlVars, hvVars, mnVars, fbVars, sgVars>>

\* Something else changes the directory: a file is removed from it.
IxRemove ==
    /\ \E f \in ix_names : ix_names' = ix_names \ {f}
    /\ ix_since' = "other"
    /\ UNCHANGED <<ix_isdir, ix_ret, ix_prev, ix_how>>
    /\ UNCHANGED <<gjVars, dlVars, hvVars, mnVars, fbVars, sgVars>>

NextIndex ==
    \/ IxCall
    \/ IxCommit
    \/ IxRemove

SpecIndex == InitIndex /\ [][NextIndex]_vars

\* The indices of the class's output files <class>_<n>.biom in a listing
\* (file names compared without regard to case, as the file systems the
\* script targets do).
ClassIndices(names) ==
    {f.idx : f \in {g \in names : /\ Lower(g.stem) = ClassName
                                  /\ Lower(g.ext) = "biom"}}

\* C4: next_index_for_class returns one more than the largest index among
\* the class's <class>_<n>.biom files, 1 when there are none; a second call
\* on an unchanged directory returns the same value; after one file is
\* committed under the returned index the next call returns one more.
C4_NextIndex ==
    /\ (ix_ret # 0 /\ ix_since = "same") =>
          /\ \A n \in ClassIndices(ix_names) : n < ix_ret
          /\ \/ ix_ret = 1 /\ ClassIndices(ix_names) = {}
             \/ (ix_ret - 1) \in ClassIndices(ix_names)
    /\ (ix_ret # 0 /\ ix_how = "same") => ix_ret = ix_prev
    /\ (ix_ret # 0 /\ ix_how = "committed") => ix_ret = ix_prev + 1

\* Files 1..5 gave 6, one file was committed, the next call gave 7.
C4_Witness ==
    /\ ClassIndices(ix_names) = 1..6
    /\ ix_how = "committed"
    /\ ix_prev = 6
    /\ ix_ret = 7
    /\ ix_since = "same"

(***************************************************************************)
(* _try_url_variants and download_file_atomic                              *)
(***************************************************************************)

\* A URL is the sequence of its segments between slashes. The first segment
\* stands for the scheme and host, the last for the file name. A segment
\* "file" or "download" that is neither first nor last is an occurrence of
\* "/file/" or "/download/" in the URL.
MidSegments == {"h", "file", "download"}
LastSegments == {"x.bio", "x.biom", "file", "download"}

\* The path segments between host and file name, at most.
MaxMid == 2

RECURSIVE SeqsUpTo(_, _)
SeqsUpTo(S, n) ==
    IF n = 0 THEN {<<>>}
    ELSE LET shorter == SeqsUpTo(S, n - 1)
         IN  shorter \cup {Append(q, x) : q \in shorter, x \in S}

Urls ==
    {<<"h">> \o mid \o <<last>> : mid \in SeqsUpTo(MidSegments, MaxMid),
                                   last \in LastSegments}

\* url.endswith(".bio"), line 93
EndsWithBio(url) == url[Len(url)] = "x.bio"

\* url + "m", line 94
AppendM(url) == [url EXCEPT ![Len(url)] = "x.biom"]

\* "/seg/" in url, lines 95 and 97
HasSegment(url, seg) == \E i \in 2..(Len(url) - 1) : url[i] = seg

\* url.replace("/from/", "/to/"), lines 96 and 98: str.replace takes the
\* occurrences from the left without overlap, so of two adjacent segments
\* "from" (which share a slash) only the first is replaced.
RECURSIVE ReplaceFrom(_, _, _, _, _)
ReplaceFrom(url, i, from, to, slashTaken) ==
    IF i > Len(url) THEN url
    ELSE IF 1 < i /\ i < Len(url) /\ url[i] = from /\ ~slashTaken
      THEN ReplaceFrom([url EXCEPT ![i] = to], i + 1, from, to, TRUE)
      ELSE ReplaceFrom(url, i + 1, from, to, FALSE)

ReplaceSegment(url, from, to) == ReplaceFrom(url, 1, from, to, FALSE)

\* lines 99-102: the variants in order, each kept once.
RECURSIVE DedupLoop(_, _, _, _)
DedupLoop(variants, i, seen, out) ==
    IF i > Len(variants) THEN out
    ELSE IF variants[i] \notin seen
      THEN DedupLoop(variants, i + 1, seen \cup {variants[i]},
                     Append(out, variants[i]))
      ELSE DedupLoop(variants, i + 1, seen, out)

\* _try_url_variants(url), lines 91-103
TryUrlVariants(url) ==
    LET v1 == <<url>>
        v2 == IF EndsWithBio(url) THEN Append(v1, AppendM(url)) ELSE v1
        v3 == IF HasSegment(url, "file")
                THEN Append(v2, ReplaceSegment(url, "file", "download"))
                ELSE v2
        v4 == IF HasSegment(url, "download")
                THEN Append(v3, ReplaceSegment(url, "download", "file"))
                ELSE v3
    IN  DedupLoop(v4, 1, {}, <<>>)

\* The chunks of a response body, at most.
MaxChunks == 2

InitDownload ==
    /\ dl_pc = "req"
    /\ dl_url \in Urls
    /\ dl_vi = 1
    /\ dl_a = 0
    /\ dl_chunks = 0
    /\ dl_tmp \in {"absent", "stale"}
    /\ dl_dest \in {"absent", "stale"}
    /\ dl_tried = <<>>
    /\ dl_last = NoResponse
    /\ dl_result = "none"
    /\ dl_used = NoUrl
    /\ GjIdle
    /\ IxIdle
    /\ HvIdle
    /\ MnIdle
    /\ FbIdle
    /\ SgIdle

\* for candidate in _try_url_variants(url), line 107
Candidate == TryUrlVariants(dl_url)[dl_vi]

\* session.get(candidate, ...), line 110: the request and its response.
Requested(resp) ==
    /\ dl_tried' = IF dl_a = 0 THEN Append(dl_tried, Candidate) ELSE dl_tried
    /\ dl_last' = [v |-> dl_vi, resp |-> resp]

\* The inner loop is left (break, or range(retries) is used up): the next
\* candidate, or return False, None (line 129) after the last.
NextCandidate ==
    IF dl_vi < Len(TryUrlVariants(dl_url))
      THEN /\ dl_vi' = dl_vi + 1
           /\ dl_a' = 0
           /\ dl_pc' = "req"
           /\ UNCHANGED <<dl_result, dl_used>>
      ELSE /\ dl_pc' = "done"
           /\ dl_result' = "False"
           /\ dl_used' = NoUrl
           /\ UNCHANGED <<dl_vi, dl_a>>

\* The next a of range(retries), on continue or at the end of the except
\* clause.
NextAttempt ==
    IF dl_a + 1 < Retries
      THEN /\ dl_a' = dl_a + 1
           /\ dl_pc' = "req"
           /\ UNCHANGED <<dl_vi, dl_result, dl_used>>
      ELSE NextCandidate

\* lines 122-125: if os.path.exists(tmp_path): os.remove(tmp_path)
RemoveTmp == dl_tmp' = "absent"

\* lines 111-112: a 429: sleep, continue
Dl429 ==
    /\ dl_pc = "req"
    /\ Requested("r429")
    /\ NextAttempt
    /\ UNCHANGED <<dl_url, dl_chunks, dl_tmp, dl_dest>>
    /\ UNCHANGED <<gjVars, ixVars, hvVars, mnVars, fbVars, sgVars>>

\* The mutant of Dl404 for C9: a 404 handled as a 429 is, with a retry of the
\* same candidate.
Dl404_retry ==
    /\ dl_pc = "req"
    /\ Requested("r404")
    /\ NextAttempt
    /\ UNCHANGED <<dl_url, dl_chunks, dl_tmp, dl_dest>>
    /\ UNCHANGED <<gjVars, ixVars, hvVars, mnVars, fbVars, sgVars>>

\* lines 113-114: a 404: break
Dl404 ==
    /\ dl_pc = "req"
    /\ Requested("r404")
    /\ NextCandidate
    /\ UNCHANGED <<dl_url, dl_chunks, dl_tmp, dl_dest>>
    /\ UNCHANGED <<gjVars, ixVars, hvVars, mnVars, fbVars, sgVars>>

\* lines 110, 115, 121-128: session.get raises, or raise_for_status does:
\* the except clause removes tmp_path if it exists.
DlError ==
    /\ dl_pc = "req"
    /\ Requested("error")
    /\ RemoveTmp
    /\ NextAttempt
    /\ UNCHANGED <<dl_url, dl_chunks, dl_dest>>
    /\ UNCHANGED <<gjVars, ixVars, hvVars, mnVars, fbVars, sgVars>>

\* line 116: a 2xx: open(tmp_path, "wb") creates or truncates the file.
DlOpen ==
    /\ dl_pc = "req"
    /\ Requested("ok")
    /\ dl_tmp' = "partial"
    /\ dl_chunks' = 0
    /\ dl_pc' = "writing"
    /\ UNCHANGED <<dl_url, dl_vi, dl_a, dl_dest, dl_result, dl_used>>
    /\ UNCHANGED <<gjVars, ixVars, hvVars, mnVars, fbVars, sgVars>>

\* lines 117-118: one chunk of the body is written.
DlChunk ==
    /\ dl_pc = "writing"
    /\ dl_chunks < MaxChunks
    /\ dl_chunks' = dl_chunks + 1
    /\ UNCHANGED <<dl_pc, dl_url, dl_vi, dl_a, dl_tmp, dl_dest, dl_tried,
                   dl_last, dl_result, dl_used>>
    /\ UNCHANGED <<gjVars, ixVars, hvVars, mnVars, fbVars, sgVars>>

\* iter_content is exhausted: the body is complete and the with blocks end.
DlBodyEnd ==
    /\ dl_pc = "writing"
    /\ dl_tmp' = "full"
    /\ dl_pc' = "written"
    /\ UNCHANGED <<dl_url, dl_vi, dl_a, dl_chunks, dl_dest, dl_tried, dl_last,
                   dl_result, dl_used>>
    /\ UNCHANGED <<gjVars, ixVars, hvVars, mnVars, fbVars, sgVars>>

\* The mutant of DlStreamFail for C8: the except clause without its cleanup.
DlStreamFail_keep ==
    /\ dl_pc = "writing"
    /\ NextAttempt
    /\ UNCHANGED <<dl_url, dl_chunks, dl_tmp, dl_dest, dl_tried, dl_last>>
    /\ UNCHANGED <<gjVars, ixVars, hvVars, mnVars, fbVars, sgVars>>

\* iter_content or f.write raises in mid-body: the except clause, lines
\* 121-128.
DlStreamFail ==
    /\ dl_pc = "writing"
    /\ RemoveTmp
    /\ NextAttempt
    /\ UNCHANGED <<dl_url, dl_chunks, dl_dest, dl_tried, dl_last>>
    /\ UNCHANGED <<gjVars, ixVars, hvVars, mnVars, fbVars, sgVars>>

\* lines 119-120: os.replace(tmp_path, out_path); return True, candidate
DlReplace ==
    /\ dl_pc = "written"
    /\ dl_dest' = dl_tmp
    /\ dl_tmp' = "absent"
    /\ dl_pc' = "done"
    /\ dl_result' = "True"
    /\ dl_used' = Candidate
    /\ UNCHANGED <<dl_url, dl_vi, dl_a, dl_chunks, dl_tried, dl_last>>
    /\ UNCHANGED <<gjVars, ixVars, hvVars, mnVars, fbVars, sgVars>>

\* os.replace raises: the except clause, lines 121-128.
DlReplaceFail ==
    /\ dl_pc = "written"
    /\ RemoveTmp
    /\ NextAttempt
    /\ UNCHANGED <<dl_url, dl_chunks, dl_dest, dl_tried, dl_last>>
    /\ UNCHANGED <<gjVars, ixVars, hvVars, mnVars, fbVars, sgVars>>

NextDownload ==
    \/ Dl429
    \/ Dl404
    \/ DlError
    \/ DlOpen
    \/ DlChunk
    \/ DlBodyEnd
    \/ DlStreamFail
    \/ DlReplace
    \/ DlReplaceFail

SpecDownload == InitDownload /\ [][NextDownload]_vars

\* Files this call wrote (a stale file was there before the call).
WrittenByCall(file) == file \in {"partial", "full"}

\* C8: the body is written to the .part file only and moved to the
\* destination by one rename once complete: the destination never holds a
\* partial body, True implies the destination holds the full body, False
\* implies the call left neither a destination nor a .part file behind.
C8_AtomicDownload ==
    /\ dl_dest # "partial"
    /\ dl_dest = "full" => dl_result = "True"
    /\ dl_result = "True" => (dl_dest = "full" /\ dl_tmp = "absent")
    /\ dl_result = "False" =>
          (~WrittenByCall(dl_tmp) /\ ~WrittenByCall(dl_dest))

\* A failure after a body was partly written, and a success after one.
C8_Witness ==
    /\ dl_pc = "done"
    /\ dl_result = "False"
    /\ dl_last.resp = "ok"
    /\ dl_chunks > 0

NoRepeat(q) == \A i, j \in 1..Len(q) : i # j => q[i] # q[j]

IsPrefix(p, q) == Len(p) <= Len(q) /\ \A i \in 1..Len(p) : p[i] = q[i]

\* C9: the original URL is requested first and the derived variants follow
\* in a fixed order, no URL twice; a 404 moves on to the next variant; the
\* call returns True at the first variant that succeeds and requests no later
\* one; it returns False only when every variant has been requested.
C9_VariantOrder ==
    /\ dl_tried # <<>> => dl_tried[1] = dl_url
    /\ NoRepeat(dl_tried)
    /\ IsPrefix(dl_tried, TryUrlVariants(dl_url))
    /\ (dl_last.resp = "r404" /\ dl_pc # "done") =>
          (dl_vi = dl_last.v + 1 /\ dl_a = 0 /\ Len(dl_tried) = dl_last.v)
    /\ (dl_last.resp = "r404" /\ dl_pc = "done") =>
          (dl_result = "False" /\ dl_last.v = Len(TryUrlVariants(dl_url)))
    /\ dl_result = "True" =>
          /\ dl_used = dl_tried[Len(dl_tried)]
          /\ dl_last = [v |-> Len(dl_tried), resp |-> "ok"]
    /\ dl_result = "False" => Len(dl_tried) = Len(TryUrlVariants(dl_url))

\* A 404 on the original URL and on the first variant, success on the third.
C9_Witness ==
    /\ dl_result = "True"
    /\ Len(dl_tried) = 3
    /\ dl_used = dl_tried[3]
    /\ dl_used # dl_url

(***************************************************************************)
(* The state store: load_state, save_state                                 *)
(***************************************************************************)

\* The download links of the model, 1..NumLinks: URL strings in their sort
\* order.
NumLinks == 2

Links == 1..NumLinks

SeqToSet(q) == {q[i] : i \in 1..Len(q)}

\* sorted(state["seen_links"]), line 51
RECURSIVE SortedSeq(_)
SortedSeq(S) ==
    IF S = {} THEN <<>>
    ELSE LET least == CHOOSE x \in S : \A y \in S : x <= y
         IN  <<least>> \o SortedSeq(S \ {least})

\* load_state(class_dir), lines 36-47: the stored collections when the file
\* exists and parses, else the empty state. (hash_to_name, which nothing
\* reads, is left out.)
load_state(disk) ==
    IF disk.kind = "json"
      THEN [seen_links |-> SeqToSet(disk.seen_links),
            biom_sig_to_name |-> disk.biom_sig_to_name]
      ELSE EmptyState

\* save_state(class_dir, state), lines 49-56
save_state(st) ==
    [kind |-> "json",
     seen_links |-> SortedSeq(st.seen_links),
     biom_sig_to_name |-> st.biom_sig_to_name]

\* A .state.json that does not parse, or parses to something load_state
\* cannot use.
CorruptFile ==
    [kind |-> "corrupt", seen_links |-> <<>>, biom_sig_to_name |-> <<>>]

(***************************************************************************)
(* Tables and their content signature                                      *)
(***************************************************************************)

\* A table file's content: the table it holds (sig names its canonical
\* content: the sorted ids, the shape and the reordered matrix).
Tables ==
    { [sig |-> "sA"], [sig |-> "sB"] }

\* A file load_table cannot read: a partial or foreign file.
Junk == [sig |-> "junk"]

NoSig == "None"

\* load_table(path), line 149, raises on a file that is no table; it is
\* reached only when the import of line 142 succeeded.
SigRaises(content) == biom_lib /\ content = Junk

\* The mutant of compute_biom_signature for C19: no None without the library.
compute_biom_signature_always(content) == content.sig

\* compute_biom_signature(path), lines 132-180: None without the library,
\* else the digest of the canonical content.
compute_biom_signature(content) ==
    IF ~biom_lib THEN NoSig ELSE content.sig

\* `if sig`, lines 242, 315, 326
HasSig(sig) == sig # NoSig

(***************************************************************************)
(* The class directory                                                     *)
(***************************************************************************)

DirPut(d, f, c) == [x \in (DOMAIN d) \cup {f} |-> IF x = f THEN c ELSE d[x]]

DirRemove(d, f) == [x \in (DOMAIN d) \ {f} |-> d[x]]

MapPut(m, k, v) == [x \in (DOMAIN m) \cup {k} |-> IF x = k THEN v ELSE m[x]]

\* out_name = f"{class_name}_{next_idx}.biom", lines 302, 347
OutName(idx) == FName(ClassName, idx, "biom")

\* tmp_path = out_path + ".tmp", line 306
TmpName(idx) == FName(ClassName, idx, "biom.tmp")

\* tmp_tsv = __tmp_<class>_<next_idx>.tsv, line 340
TmpTsvName(idx) == FName("__tmp_forest", idx, "tsv")

\* The largest index of the output files the class directory starts with.
MaxInitIdx == 2

\* The largest n_target.
MaxTarget == 2

InitDirs ==
    UNION { [ {OutName(i) : i \in idxs} -> Tables ] :
              idxs \in SUBSET (1..MaxInitIdx) }

(***************************************************************************)
(* harvest_class: the start of a call, lines 227-252                       *)
(***************************************************************************)

\* Before the first call of harvest_class: whether biom-format imports, the
\* target of the class and the content of the class directory are given.
InitCall(libs, targets, dirs) ==
    /\ pc = "idle"
    /\ biom_lib \in libs
    /\ n_target \in targets
    /\ dir \in dirs
    /\ disk_state = MissingFile
    /\ state = EmptyState
    /\ saved = 0
    /\ next_idx = 0
    /\ page_i = 0
    /\ has_next = FALSE
    /\ run_cnt = 0
    /\ an_cnt = 0
    /\ ret = -1
    /\ net_used = FALSE
    /\ saved0 = 0
    /\ committed = 0
    /\ init_dir = dir
    /\ ev = NoEvent
    /\ GjIdle
    /\ IxIdle
    /\ DlIdle
    /\ MnIdle
    /\ FbIdle
    /\ SgIdle

Init == InitCall(BOOLEAN, 1..MaxTarget, InitDirs)

\* harvest_class is called when no call is under way.
CanStart == pc \in {"idle", "returned", "raised"}

Event(kind, link) == [kind |-> kind, link |-> link]

\* state = load_state(class_dir), line 233
Loaded == load_state(disk_state)

\* `if not state["biom_sig_to_name"]`, line 236
NeedsBackfill == DOMAIN Loaded.biom_sig_to_name = {}

\* lines 238-239: the names the backfill loop does not skip
BackfillNames(d) ==
    {f \in DOMAIN d : Lower(f.ext) = "biom" /\ f.stem = ClassName}

\* The mutant of BackfillLoop for C10: only the first file is signed.
RECURSIVE BackfillFirstOnly(_, _, _)
BackfillFirstOnly(left, d, sigs) ==
    IF left = {} \/ DOMAIN sigs # {} THEN sigs
    ELSE LET fname == CHOOSE f \in left : \A g \in left : f.idx <= g.idx
             sig == compute_biom_signature(d[fname])
         IN  BackfillFirstOnly(left \ {fname}, d,
                 IF HasSig(sig) THEN MapPut(sigs, sig, fname) ELSE sigs)

\* lines 237-243: for fname in sorted(os.listdir(class_dir)), in name order
\* (the order of the indices, for indices of one digit):
\* state["biom_sig_to_name"].setdefault(sig, fname) when sig is not None.
RECURSIVE BackfillLoop(_, _, _)
BackfillLoop(left, d, sigs) ==
    IF left = {} THEN sigs
    ELSE LET fname == CHOOSE f \in left : \A g \in left : f.idx <= g.idx
             sig == compute_biom_signature(d[fname])
         IN  BackfillLoop(left \ {fname}, d,
                 IF HasSig(sig) /\ sig \notin DOMAIN sigs
                   THEN MapPut(sigs, sig, fname)
                   ELSE sigs)

\* compute_biom_signature raises inside the backfill loop, line 241.
BackfillRaises ==
    NeedsBackfill /\ \E f \in BackfillNames(dir) : SigRaises(dir[f])

\* The state after lines 233-244.
Resumed ==
    IF NeedsBackfill
      THEN [Loaded EXCEPT !.biom_sig_to_name =
                              BackfillLoop(BackfillNames(dir), dir, <<>>)]
      ELSE Loaded

\* .state.json after lines 233-244: save_state runs inside the `if`.
ResumedDisk == IF NeedsBackfill THEN save_state(Resumed) ELSE disk_state

\* next_idx = next_index_for_class(class_dir, class_name), line 246, after
\* os.makedirs(class_dir, exist_ok=True), line 231
ResumeIdx == next_index_for_class(TRUE, DOMAIN dir, ClassName)

\* remain = max(0, n_target - saved), line 248
Remain(s) == Max2(0, n_target - s)

\* The variables a call never assigns.
callConsts == <<biom_lib, n_target, init_dir>>

\* lines 233-241: the backfill raises and the call ends with the exception;
\* nothing was saved.
StartRaise ==
    /\ CanStart
    /\ BackfillRaises
    /\ pc' = "raised"
    /\ state' = Loaded
    /\ ret' = -1
    /\ net_used' = FALSE
    /\ page_i' = 0
    /\ has_next' = FALSE
    /\ ev' = Event("start_raise", NoLink)
    /\ UNCHANGED <<dir, disk_state, saved, next_idx, run_cnt, an_cnt, saved0,
                   committed>>
    /\ UNCHANGED callConsts
    /\ UNCHANGED <<gjVars, ixVars, dlVars, mnVars, fbVars, sgVars>>

\* lines 233-252 with remain == 0: the call returns saved at once.
StartDone ==
    /\ CanStart
    /\ ~BackfillRaises
    /\ Remain(ResumeIdx - 1) = 0
    /\ state' = Resumed
    /\ disk_state' = ResumedDisk
    /\ next_idx' = ResumeIdx
    /\ saved' = ResumeIdx - 1
    /\ saved0' = ResumeIdx - 1
    /\ pc' = "returned"
    /\ ret' = ResumeIdx - 1
    /\ net_used' = FALSE
    /\ page_i' = 0
    /\ has_next' = FALSE
    /\ ev' = Event("resume_done", NoLink)
    /\ UNCHANGED <<dir, run_cnt, an_cnt, committed>>
    /\ UNCHANGED callConsts
    /\ UNCHANGED <<gjVars, ixVars, dlVars, mnVars, fbVars, sgVars>>

\* lines 233-255 with remain > 0: the walk begins.
StartWalk ==
    /\ CanStart
    /\ ~BackfillRaises
    /\ Remain(ResumeIdx - 1) # 0
    /\ state' = Resumed
    /\ disk_state' = ResumedDisk
    /\ next_idx' = ResumeIdx
    /\ saved' = ResumeIdx - 1
    /\ saved0' = ResumeIdx - 1
    /\ pc' = "pages"
    /\ ret' = -1
    /\ net_used' = FALSE
    /\ page_i' = 0
    /\ has_next' = TRUE
    /\ ev' = Event("resume_walk", NoLink)
    /\ UNCHANGED <<dir, run_cnt, an_cnt, committed>>
    /\ UNCHANGED callConsts
    /\ UNCHANGED <<gjVars, ixVars, dlVars, mnVars, fbVars, sgVars>>

\* Between two calls .state.json is damaged from outside.
EnvCorruptState ==
    /\ CanStart
    /\ disk_state.kind # "corrupt"
    /\ disk_state' = CorruptFile
    /\ ev' = Event("env_corrupt", NoLink)
    /\ UNCHANGED <<pc, dir, state, saved, next_idx, page_i, has_next, run_cnt,
                   an_cnt, ret, net_used, saved0, committed>>
    /\ UNCHANGED callConsts
    /\ UNCHANGED <<gjVars, ixVars, dlVars, mnVars, fbVars, sgVars>>

(***************************************************************************)
(* harvest_class: the walk, lines 254-292                                  *)
(***************************************************************************)

\* MAX_SAMPLE_PAGES, MAX_RUNS_PER_SAMPLE, MAX_ANALYSES_PER_RUN, lines 16-18
\* (120, 12 and 12 in the source; scaled down, the walk is the same for any
\* value).
MAX_SAMPLE_PAGES == 1
MAX_RUNS_PER_SAMPLE == 1
MAX_ANALYSES_PER_RUN == 2

\* What the files and the state hold; the walk between candidates leaves
\* them alone.
storeVars == <<dir, disk_state, state, saved, next_idx, committed>>

\* get_json raises out of harvest_class (no try around lines 257, 271, 281,
\* 292): the call ends with the exception.
Raised(kind) ==
    /\ pc' = "raised"
    /\ ret' = -1
    /\ net_used' = TRUE
    /\ ev' = Event(kind, NoLink)
    /\ run_cnt' = 0
    /\ an_cnt' = 0
    /\ UNCHANGED <<page_i, has_next, saved0>>
    /\ UNCHANGED storeVars
    /\ UNCHANGED callConsts
    /\ UNCHANGED <<gjVars, ixVars, dlVars, mnVars, fbVars, sgVars>>

\* lines 375-376: the page loop is over, return saved
Returned(kind, used) ==
    /\ pc' = "returned"
    /\ ret' = saved
    /\ net_used' = used
    /\ ev' = Event(kind, NoLink)
    /\ has_next' = FALSE
    /\ UNCHANGED <<run_cnt, an_cnt, saved0>>
    /\ UNCHANGED storeVars
    /\ UNCHANGED callConsts
    /\ UNCHANGED <<gjVars, ixVars, dlVars, mnVars, fbVars, sgVars>>

\* iter_pages, line 86: get_json(url) raises
PageFetchRaise ==
    /\ pc = "pages"
    /\ has_next
    /\ Raised("page_raise")

\* iter_pages, line 87: `if not data: break` (get_json gave None or {})
PageFetchFalsy ==
    /\ pc = "pages"
    /\ has_next
    /\ Returned("page_falsy", TRUE)
    /\ UNCHANGED page_i

\* iter_pages, lines 85 and 89: the last page had no links.next
PagesEnd ==
    /\ pc = "pages"
    /\ ~has_next
    /\ Returned("pages_end", net_used)
    /\ UNCHANGED page_i

\* lines 257-264: a page is yielded; page_i += 1; the three breaks of the
\* page loop, in their order, else the samples of the page.
PageYield ==
    /\ pc = "pages"
    /\ has_next
    /\ page_i' = page_i + 1
    /\ IF saved >= n_target
         THEN Returned("page_target", TRUE)
       ELSE IF page_i + 1 > MAX_SAMPLE_PAGES
         THEN Returned("page_cap", TRUE)
       ELSE /\ pc' = "samples"
            /\ has_next' \in BOOLEAN
            /\ net_used' = TRUE
            /\ ev' = Event("page", NoLink)
            /\ UNCHANGED <<run_cnt, an_cnt, ret, saved0>>
            /\ UNCHANGED storeVars
            /\ UNCHANGED callConsts
            /\ UNCHANGED <<gjVars, ixVars, dlVars, mnVars, fbVars, sgVars>>

\* lines 261-262: CLASS_TIME_LIMIT is exceeded when the page arrives
PageTimeLimit ==
    /\ pc = "pages"
    /\ has_next
    /\ saved < n_target
    /\ page_i' = page_i + 1
    /\ Returned("time_limit", TRUE)

\* One step of a loop of the walk that changes pc only.
WalkTo(newpc, kind, used) ==
    /\ pc' = newpc
    /\ net_used' = used
    /\ ev' = Event(kind, NoLink)
    /\ UNCHANGED <<page_i, has_next, ret, saved0>>
    /\ UNCHANGED storeVars
    /\ UNCHANGED callConsts
    /\ UNCHANGED <<gjVars, ixVars, dlVars, mnVars, fbVars, sgVars>>

\* line 266: page["data"] is used up
SamplesEnd ==
    /\ pc = "samples"
    /\ WalkTo("pages", "samples_end", net_used)
    /\ UNCHANGED <<run_cnt, an_cnt>>

\* line 267: if saved >= n_target: break
SampleBreak ==
    /\ pc = "samples"
    /\ saved >= n_target
    /\ WalkTo("pages", "sample_break", net_used)
    /\ UNCHANGED <<run_cnt, an_cnt>>

\* lines 269-270: the sample has no runs link: continue
SampleNoRuns ==
    /\ pc = "samples"
    /\ saved < n_target
    /\ WalkTo("samples", "sample_no_runs", net_used)
    /\ UNCHANGED <<run_cnt, an_cnt>>

\* line 271: get_json(runs_link) raises
SampleRunsRaise ==
    /\ pc = "samples"
    /\ saved < n_target
    /\ Raised("runs_raise")

\* lines 271-272: runs = get_json(runs_link) or {}; run_cnt = 0
SampleRuns ==
    /\ pc = "samples"
    /\ saved < n_target
    /\ WalkTo("runs", "runs", TRUE)
    /\ run_cnt' = 0
    /\ UNCHANGED an_cnt

\* line 274: runs["data"] is used up
RunsEnd ==
    /\ pc = "runs"
    /\ WalkTo("samples", "runs_end", net_used)
    /\ run_cnt' = 0
    /\ UNCHANGED an_cnt

\* lines 275-277: run_cnt += 1, then break on the cap or on the target
RunBreak ==
    /\ pc = "runs"
    /\ (run_cnt + 1 > MAX_RUNS_PER_SAMPLE) \/ (saved >= n_target)
    /\ WalkTo("samples",
              IF run_cnt + 1 > MAX_RUNS_PER_SAMPLE THEN "run_cap"
                                                  ELSE "run_target",
              net_used)
    /\ run_cnt' = 0
    /\ UNCHANGED an_cnt

\* The mutant of RunTaken for C27: the cap is not looked at.
RunTaken_nocap ==
    /\ pc = "runs"
    /\ saved < n_target

\* The run is looked at: neither break of lines 276-277 is taken.
RunTaken ==
    /\ pc = "runs"
    /\ run_cnt + 1 <= MAX_RUNS_PER_SAMPLE
    /\ saved < n_target

\* lines 279-280: the run has no analyses link: continue
RunNoAnalyses ==
    /\ RunTaken
    /\ WalkTo("runs", "run_no_analyses", net_used)
    /\ run_cnt' = run_cnt + 1
    /\ UNCHANGED an_cnt

\* line 281: get_json(analyses_link) raises
RunAnalysesRaise ==
    /\ RunTaken
    /\ Raised("analyses_raise")

\* lines 281-282: analyses = get_json(analyses_link) or {}; an_cnt = 0
RunAnalyses ==
    /\ RunTaken
    /\ WalkTo("analyses", "analyses", TRUE)
    /\ run_cnt' = run_cnt + 1
    /\ an_cnt' = 0

\* line 284: analyses["data"] is used up
AnalysesEnd ==
    /\ pc = "analyses"
    /\ WalkTo("runs", "analyses_end", net_used)
    /\ an_cnt' = 0
    /\ UNCHANGED run_cnt

\* lines 285-287: an_cnt += 1, then break on the cap or on the target
AnalysisBreak ==
    /\ pc = "analyses"
    /\ (an_cnt + 1 > MAX_ANALYSES_PER_RUN) \/ (saved >= n_target)
    /\ WalkTo("runs",
              IF an_cnt + 1 > MAX_ANALYSES_PER_RUN THEN "analysis_cap"
                                                   ELSE "analysis_target",
              net_used)
    /\ an_cnt' = 0
    /\ UNCHANGED run_cnt

\* The mutant of AnalysisTaken for C26: the target is not looked at.
AnalysisTaken_anytarget ==
    /\ pc = "analyses"
    /\ an_cnt + 1 <= MAX_ANALYSES_PER_RUN

\* The analysis is looked at: neither break of lines 286-287 is taken.
AnalysisTaken ==
    /\ pc = "analyses"
    /\ an_cnt + 1 <= MAX_ANALYSES_PER_RUN
    /\ saved < n_target

\* lines 289-290: the analysis has no downloads link: continue
AnalysisNoDownloads ==
    /\ AnalysisTaken
    /\ WalkTo("analyses", "analysis_no_downloads", net_used)
    /\ an_cnt' = an_cnt + 1
    /\ UNCHANGED run_cnt

\* line 292: get_json(dl_link) raises
AnalysisDownloadsRaise ==
    /\ AnalysisTaken
    /\ Raised("downloads_raise")

(***************************************************************************)
(* find_biom_or_tsv, lines 183-197                                         *)
(***************************************************************************)

\* alias.strip(), line 187
Strip(alias) ==
    CASE alias = " "        -> ""
      [] alias = " X.BIOM " -> "X.BIOM"
      [] OTHER              -> alias

\* low.endswith(".biom"), line 192
EndsWithDotBiom(low) == low \in {"x.biom"}

\* The mutant of HasOtu for C18: any .tsv is taken.
HasOtu_any(low) == TRUE

\* "otu" in low, line 195
HasOtu(low) == low \in {"otu.tsv", "otu.txt", "otu.tsv.gz"}

\* low.endswith(".tsv"), line 195
EndsWithDotTsv(low) == low \in {"otu.tsv", "tax.tsv"}

NoAlias == "None"

\* line 184: biom_url = biom_alias = tsv_url = tsv_alias = None
NothingFound ==
    [biom_url |-> NoLink, biom_alias |-> NoAlias,
     tsv_url |-> NoLink, tsv_alias |-> NoAlias]

\* The mutant of FindLoop for C17: no break at the first .biom item.
RECURSIVE FindLoop_nobreak(_, _, _)
FindLoop_nobreak(data, i, found) ==
    IF i > Len(data) THEN found
    ELSE LET alias == Strip(data[i].alias)
             link == data[i].link
             low == Lower(alias)
         IN  IF alias = "" \/ link = NoLink
               THEN FindLoop_nobreak(data, i + 1, found)
             ELSE IF EndsWithDotBiom(low)
               THEN FindLoop_nobreak(data, i + 1,
                        [found EXCEPT !.biom_url = link, !.biom_alias = alias])
             ELSE IF HasOtu(low) /\ EndsWithDotTsv(low)
                     /\ found.tsv_url = NoLink
               THEN FindLoop_nobreak(data, i + 1,
                        [found EXCEPT !.tsv_url = link, !.tsv_alias = alias])
             ELSE FindLoop_nobreak(data, i + 1, found)

\* The for loop of lines 185-196 from item i on.
RECURSIVE FindLoop(_, _, _)
FindLoop(data, i, found) ==
    IF i > Len(data) THEN found
    ELSE LET alias == Strip(data[i].alias)
             link == data[i].link
             low == Lower(alias)
         IN  IF alias = "" \/ link = NoLink
               THEN FindLoop(data, i + 1, found)
             ELSE IF EndsWithDotBiom(low)
               THEN [found EXCEPT !.biom_url = link, !.biom_alias = alias]
             ELSE IF HasOtu(low) /\ EndsWithDotTsv(low)
                     /\ found.tsv_url = NoLink
               THEN FindLoop(data, i + 1,
                        [found EXCEPT !.tsv_url = link, !.tsv_alias = alias])
             ELSE FindLoop(data, i + 1, found)

find_biom_or_tsv(data) == FindLoop(data, 1, NothingFound)

\* The downloads listings the walk meets: no item (also get_json's None,
\* by `or {}`), one item, a text table followed by a binary table.
Aliases == {"x.biom", "otu.tsv", "tax.tsv"}

Items == [alias : Aliases, link : Links \cup {NoLink}]

Listings ==
    {<<>>} \cup {<<i>> : i \in Items}
       \cup {<<t, b>> : t \in {i \in Items : i.alias = "otu.tsv"},
                        b \in {i \in Items : i.alias = "x.biom"}}

\* downloads = get_json(dl_link) or {}; find_biom_or_tsv(downloads), lines
\* 292-295: what the call gives on the listings.
Found == {find_biom_or_tsv(data) : data \in Listings}

(***************************************************************************)
(* harvest_class: a candidate is evaluated, lines 292-372                  *)
(***************************************************************************)

\* candidate_link = biom_url or tsv_url, line 296
CandidateLink(found) ==
    IF found.biom_url # NoLink THEN found.biom_url ELSE found.tsv_url

\* The mutant of AlreadySeen for C2: the check of line 297 left out.
AlreadySeen_never(candidate_link) == FALSE

\* line 297: candidate_link and candidate_link in state["seen_links"]
AlreadySeen(candidate_link) ==
    candidate_link # NoLink /\ candidate_link \in state.seen_links

\* line 301 is reached and taken
BiomPath(found) ==
    ~AlreadySeen(CandidateLink(found)) /\ found.biom_url # NoLink

\* line 339 is reached and taken
TsvPath(found) ==
    /\ ~AlreadySeen(CandidateLink(found))
    /\ found.biom_url = NoLink
    /\ found.tsv_url # NoLink

\* state["seen_links"].add(candidate_link)
WithSeen(st, link) == [st EXCEPT !.seen_links = @ \cup {link}]

\* The mutant of WithSig for C23: the temporary name is recorded.
WithSig_tmpname(st, sig, name) ==
    IF HasSig(sig)
      THEN [st EXCEPT !.biom_sig_to_name = MapPut(@, sig, TmpName(name.idx))]
      ELSE st

\* state["biom_sig_to_name"][sig] = out_name, under `if sig`
WithSig(st, sig, name) ==
    IF HasSig(sig)
      THEN [st EXCEPT !.biom_sig_to_name = MapPut(@, sig, name)]
      ELSE st

\* The mutant of IsDuplicate for C1: the signature is not looked up.
IsDuplicate_never(sig) == FALSE

\* `sig and sig in state["biom_sig_to_name"]`, lines 315 and 354
IsDuplicate(sig) == HasSig(sig) /\ sig \in DOMAIN state.biom_sig_to_name

\* What every evaluation does: the downloads listing was requested.
EvalFrame(kind, link) ==
    /\ AnalysisTaken
    /\ net_used' = TRUE
    /\ ev' = Event(kind, link)
    /\ UNCHANGED <<page_i, has_next, ret, saved0>>
    /\ UNCHANGED callConsts
    /\ UNCHANGED <<gjVars, ixVars, dlVars, mnVars, fbVars, sgVars>>

\* `continue`: the next analysis of the run
Continue ==
    /\ pc' = "analyses"
    /\ an_cnt' = an_cnt + 1
    /\ UNCHANGED run_cnt

\* The mutant of Saved for C22: the state is changed in memory only.
Saved_memory_only(st) ==
    /\ state' = st
    /\ UNCHANGED disk_state

\* The state is changed and saved: save_state(class_dir, state)
Saved(st) ==
    /\ state' = st
    /\ disk_state' = save_state(st)

\* No candidate: neither `if biom_url` nor `if tsv_url` is taken.
EvalNoCandidate ==
    \E found \in Found :
        /\ CandidateLink(found) = NoLink
        /\ EvalFrame("no_candidate", NoLink)
        /\ Continue
        /\ UNCHANGED storeVars

\* lines 297-298: the candidate link is in seen_links: continue
EvalSeen ==
    \E found \in Found :
        LET link == CandidateLink(found)
        IN  /\ AlreadySeen(link)
            /\ EvalFrame("skip_seen", link)
            /\ Continue
            /\ UNCHANGED storeVars

\* The mutant of EvalBiomFail for C11: the failed link is not recorded.
EvalBiomFail_forget ==
    \E found \in Found :
        LET link == CandidateLink(found)
        IN  /\ BiomPath(found)
            /\ EvalFrame("biom_dl_fail", link)
            /\ Continue
            /\ UNCHANGED storeVars

\* lines 307-311: download_file_atomic(biom_url, tmp_path) gives False
EvalBiomFail ==
    \E found \in Found :
        LET link == CandidateLink(found)
        IN  /\ BiomPath(found)
            /\ EvalFrame("biom_dl_fail", link)
            /\ Continue
            /\ Saved(WithSeen(state, link))
            /\ UNCHANGED <<dir, saved, next_idx, committed>>

\* lines 307, 314: the download succeeds and compute_biom_signature raises
\* on the file: the exception leaves harvest_class, tmp_path stays.
EvalBiomSigRaise ==
    \E found \in Found :
        LET link == CandidateLink(found)
        IN  /\ BiomPath(found)
            /\ SigRaises(Junk)
            /\ EvalFrame("biom_sig_raise", link)
            /\ pc' = "raised"
            /\ an_cnt' = 0
            /\ run_cnt' = 0
            /\ dir' = DirPut(dir, TmpName(next_idx), Junk)
            /\ UNCHANGED <<disk_state, state, saved, next_idx, committed>>

\* lines 307, 314-322: the downloaded table is a duplicate: tmp_path is
\* removed, the link is recorded and saved.
EvalBiomDup ==
    \E found \in Found, c \in Tables :
        LET link == CandidateLink(found)
            sig == compute_biom_signature(c)
        IN  /\ BiomPath(found)
            /\ IsDuplicate(sig)
            /\ EvalFrame("biom_dup", link)
            /\ Continue
            /\ dir' = DirRemove(DirPut(dir, TmpName(next_idx), c),
                                TmpName(next_idx))
            /\ Saved(WithSeen(state, link))
            /\ UNCHANGED <<saved, next_idx, committed>>

\* lines 307, 314, 324-336: the downloaded file is committed: os.replace to
\* out_path, signature and link recorded and saved, saved += 1,
\* next_idx += 1, break when the target is reached.
EvalBiomCommit ==
    \E found \in Found, c \in Tables \cup {Junk} :
        LET link == CandidateLink(found)
            sig == compute_biom_signature(c)
        IN  /\ BiomPath(found)
            /\ ~SigRaises(c)
            /\ ~IsDuplicate(sig)
            /\ EvalFrame("biom_commit", link)
            /\ dir' = DirPut(DirRemove(dir, TmpName(next_idx)),
                             OutName(next_idx), c)
            /\ Saved(WithSeen(WithSig(state, sig, OutName(next_idx)), link))
            /\ saved' = saved + 1
            /\ next_idx' = next_idx + 1
            /\ committed' = committed + 1
            /\ IF saved + 1 >= n_target
                 THEN /\ pc' = "runs"
                      /\ an_cnt' = 0
                      /\ UNCHANGED run_cnt
                 ELSE Continue

\* lines 341-345: download_file_atomic(tsv_url, tmp_tsv) gives False
EvalTsvFail ==
    \E found \in Found :
        LET link == CandidateLink(found)
        IN  /\ TsvPath(found)
            /\ EvalFrame("tsv_dl_fail", link)
            /\ Continue
            /\ Saved(WithSeen(state, link))
            /\ UNCHANGED <<dir, saved, next_idx, committed>>

\* What a failed conversion leaves in the directory: the converter was given
\* out_path to write to and may have begun to; the finally clause of lines
\* 370-372 removes tmp_tsv.
AfterFailedConversion(partial) ==
    DirRemove(IF partial THEN DirPut(dir, OutName(next_idx), Junk) ELSE dir,
              TmpTsvName(next_idx))

\* lines 351, 222-224: convert_tsv_to_biom gives False (no biom CLI, the
\* fallback failed): nothing is recorded.
EvalTsvConvFalse ==
    \E found \in Found, partial \in BOOLEAN :
        LET link == CandidateLink(found)
        IN  /\ TsvPath(found)
            /\ EvalFrame("tsv_conv_false", link)
            /\ Continue
            /\ dir' = AfterFailedConversion(partial)
            /\ UNCHANGED <<disk_state, state, saved, next_idx, committed>>

\* lines 351, 211: subprocess.check_call raises CalledProcessError, which
\* leaves harvest_class after the finally clause.
EvalTsvConvRaise ==
    \E found \in Found, partial \in BOOLEAN :
        LET link == CandidateLink(found)
        IN  /\ TsvPath(found)
            /\ EvalFrame("tsv_conv_raise", link)
            /\ pc' = "raised"
            /\ an_cnt' = 0
            /\ run_cnt' = 0
            /\ dir' = AfterFailedConversion(partial)
            /\ UNCHANGED <<disk_state, state, saved, next_idx, committed>>

\* lines 351-359, 370-372: the converted table is a duplicate: out_path is
\* removed, the link is recorded and saved.
EvalTsvDup ==
    \E found \in Found, c \in Tables :
        LET link == CandidateLink(found)
            sig == compute_biom_signature(c)
        IN  /\ TsvPath(found)
            /\ IsDuplicate(sig)
            /\ EvalFrame("tsv_dup", link)
            /\ Continue
            /\ dir' = DirRemove(DirRemove(DirPut(dir, OutName(next_idx), c),
                                          OutName(next_idx)),
                                TmpTsvName(next_idx))
            /\ Saved(WithSeen(state, link))
            /\ UNCHANGED <<saved, next_idx, committed>>

\* The mutant of EvalTsvCommit for C24: next_idx is not advanced.
EvalTsvCommit_sameidx ==
    \E found \in Found, c \in Tables :
        LET link == CandidateLink(found)
            sig == compute_biom_signature(c)
        IN  /\ TsvPath(found)
            /\ ~IsDuplicate(sig)
            /\ EvalFrame("tsv_commit", link)
            /\ Continue
            /\ dir' = DirRemove(DirPut(dir, OutName(next_idx), c),
                                TmpTsvName(next_idx))
            /\ Saved(WithSeen(WithSig(state, sig, OutName(next_idx)), link))
            /\ saved' = saved + 1
            /\ committed' = committed + 1
            /\ UNCHANGED next_idx

\* lines 351-353, 361-372: the converted table is committed.
EvalTsvCommit ==
    \E found \in Found, c \in Tables :
        LET link == CandidateLink(found)
            sig == compute_biom_signature(c)
        IN  /\ TsvPath(found)
            /\ ~IsDuplicate(sig)
            /\ EvalFrame("tsv_commit", link)
            /\ Continue
            /\ dir' = DirRemove(DirPut(dir, OutName(next_idx), c),
                                TmpTsvName(next_idx))
            /\ Saved(WithSeen(WithSig(state, sig, OutName(next_idx)), link))
            /\ saved' = saved + 1
            /\ next_idx' = next_idx + 1
            /\ committed' = committed + 1

\* lines 325-329: the process is interrupted (KeyboardInterrupt, which no
\* handler of harvest_class catches) after os.replace(tmp_path, out_path) and
\* before save_state: out_path is in the directory, the file on disk records
\* neither the signature nor the link.
EvalBiomInterrupted ==
    \E found \in Found, c \in Tables :
        LET link == CandidateLink(found)
            sig == compute_biom_signature(c)
        IN  /\ BiomPath(found)
            /\ ~IsDuplicate(sig)
            /\ EvalFrame("biom_interrupted", link)
            /\ pc' = "raised"
            /\ an_cnt' = 0
            /\ run_cnt' = 0
            /\ dir' = DirPut(DirRemove(dir, TmpName(next_idx)),
                             OutName(next_idx), c)
            /\ UNCHANGED <<disk_state, state, saved, next_idx, committed>>

\* lines 351-365, 370-372: the process is interrupted after
\* convert_tsv_to_biom wrote out_path and before save_state; the finally
\* clause removes tmp_tsv, out_path stays.
EvalTsvInterrupted ==
    \E found \in Found, c \in Tables :
        LET link == CandidateLink(found)
            sig == compute_biom_signature(c)
        IN  /\ TsvPath(found)
            /\ ~IsDuplicate(sig)
            /\ EvalFrame("tsv_interrupted", link)
            /\ pc' = "raised"
            /\ an_cnt' = 0
            /\ run_cnt' = 0
            /\ dir' = DirRemove(DirPut(dir, OutName(next_idx), c),
                                TmpTsvName(next_idx))
            /\ UNCHANGED <<disk_state, state, saved, next_idx, committed>>

Next ==
    \/ StartRaise
    \/ StartDone
    \/ StartWalk
    \/ EnvCorruptState
    \/ PageFetchRaise
    \/ PageFetchFalsy
    \/ PagesEnd
    \/ PageYield
    \/ PageTimeLimit
    \/ SamplesEnd
    \/ SampleBreak
    \/ SampleNoRuns
    \/ SampleRunsRaise
    \/ SampleRuns
    \/ RunsEnd
    \/ RunBreak
    \/ RunNoAnalyses
    \/ RunAnalysesRaise
    \/ RunAnalyses
    \/ AnalysesEnd
    \/ AnalysisBreak
    \/ AnalysisNoDownloads
    \/ AnalysisDownloadsRaise
    \/ EvalNoCandidate
    \/ EvalSeen
    \/ EvalBiomFail
    \/ EvalBiomSigRaise
    \/ EvalBiomDup
    \/ EvalBiomCommit
    \/ EvalTsvFail
    \/ EvalTsvConvFalse
    \/ EvalTsvConvRaise
    \/ EvalTsvDup
    \/ EvalTsvCommit

Spec == Init /\ [][Next]_vars

\* A harvest from scratch: an empty class directory, biom-format available,
\* and a target one above MaxTarget, so that a resumed call still has
\* something to fetch when two files are on disk.
InitResume == InitCall({TRUE}, {MaxTarget + 1}, {<<>>})

\* The steps of harvest_class and the interruptions of the process between
\* making a file visible and saving the state.
NextResume ==
    \/ Next
    \/ EvalBiomInterrupted
    \/ EvalTsvInterrupted

SpecResume == InitResume /\ [][NextResume]_vars

(***************************************************************************)
(* Properties of harvest_class                                             *)
(***************************************************************************)

\* The <class>_<n>.biom files of the class in a directory.
OutputFiles(d) ==
    {f \in DOMAIN d : f.stem = ClassName /\ Lower(f.ext) = "biom"}

\* The events of the steps that called download_file_atomic on ev.link.
DownloadKinds ==
    {"biom_dl_fail", "biom_sig_raise", "biom_dup", "biom_commit",
     "tsv_dl_fail", "tsv_conv_false", "tsv_conv_raise", "tsv_dup",
     "tsv_commit", "biom_interrupted", "tsv_interrupted"}

\* The saved count harvest_class derives from the file names of a directory.
SavedCount(d) == next_index_for_class(TRUE, DOMAIN d, ClassName) - 1

\* The events of the steps that begin a call of harvest_class.
StartKinds == {"start_raise", "resume_done", "resume_walk"}

\* C1: a table whose signature is already a key of biom_sig_to_name is never
\* committed, on either path; the step that finds the duplicate leaves saved
\* and next_idx unchanged, leaves no new <class>_<n>.biom file in the class
\* directory, and adds the candidate's link to seen_links and saves it.
C1_DuplicateHandling ==
    [][ /\ ev'.kind \in {"biom_commit", "tsv_commit"} =>
             LET sig == compute_biom_signature(dir'[OutName(next_idx)])
             IN  ~(HasSig(sig) /\ sig \in DOMAIN state.biom_sig_to_name)
        /\ ev'.kind \in {"biom_dup", "tsv_dup"} =>
             /\ saved' = saved
             /\ next_idx' = next_idx
             /\ OutputFiles(dir') \subseteq OutputFiles(dir)
             /\ state'.biom_sig_to_name = state.biom_sig_to_name
             /\ ev'.link \in state'.seen_links
             /\ disk_state'.kind = "json"
             /\ ev'.link \in SeqToSet(disk_state'.seen_links)
      ]_vars

\* A duplicate found on the TSV path after one commit: the link is seen and
\* saved, one file is counted.
C1_Witness ==
    /\ ev.kind = "tsv_dup"
    /\ DOMAIN init_dir = {}
    /\ committed = 1
    /\ saved = 1
    /\ next_idx = 2
    /\ OutputFiles(dir) = {OutName(1)}
    /\ ev.link \in SeqToSet(disk_state.seen_links)

\* C2: download_file_atomic is never called on a candidate link that is in
\* seen_links, neither in the state of the running call nor in the saved
\* state a call starts from.
C2_SeenNeverDownloaded ==
    [][ ev'.kind \in DownloadKinds =>
           /\ ev'.link \notin state.seen_links
           /\ ev'.link \notin SeqToSet(disk_state.seen_links)
      ]_vars

\* An analysis whose candidate link is in the saved seen_links is skipped,
\* after a commit of an earlier candidate.
C2_Witness ==
    /\ ev.kind = "skip_seen"
    /\ disk_state.kind = "json"
    /\ ev.link \in SeqToSet(disk_state.seen_links)
    /\ committed >= 1

\* C3: a call that starts with a saved count, derived from the file names,
\* of at least n_target returns that count at once, with no network request.
C3_TargetReachedReturnsAtOnce ==
    [][ (CanStart /\ ev'.kind \in StartKinds /\ SavedCount(dir) >= n_target) =>
           /\ pc' = "returned"
           /\ ret' = SavedCount(dir)
           /\ ~net_used'
      ]_vars

\* C5: starting from an empty class directory, the output files of the class
\* are exactly <class>_1.biom .. <class>_k.biom, k the number of commits.
C5_ConsecutiveFromEmpty ==
    DOMAIN init_dir = {} =>
        {f.idx : f \in OutputFiles(dir)} = 1..committed

\* C10 as stated: load_state on a missing or unparseable .state.json gives
\* the empty state, and the call that follows does not raise, records a
\* signature for every existing <class>_*.biom file and saves the state
\* before it walks.
C10_AsStated ==
    [][ (CanStart /\ ev'.kind \in StartKinds /\ disk_state.kind # "json") =>
           /\ load_state(disk_state) = EmptyState
           /\ pc' # "raised"
           /\ \A f \in OutputFiles(dir) :
                 dir[f].sig \in DOMAIN state'.biom_sig_to_name
           /\ disk_state' = save_state(state')
           /\ ~net_used'
      ]_vars

\* C10, amended: load_state on a missing or unparseable .state.json gives the
\* empty state; the call that follows ends with the exception when the
\* signature of an existing file cannot be computed, and otherwise saves the
\* state before any request of the walk, with the signature of every
\* existing <class>_*.biom file recorded when the table library is there
\* and with no signature when it is not.
C10_BackfillOnEmptyState ==
    [][ (CanStart /\ ev'.kind \in StartKinds /\ disk_state.kind # "json") =>
           /\ load_state(disk_state) = EmptyState
           /\ pc' = "raised" <=>
                 (biom_lib /\ \E f \in OutputFiles(dir) : dir[f] = Junk)
           /\ pc' # "raised" =>
                 /\ state'.seen_links = {}
                 /\ disk_state' = save_state(state')
                 /\ disk_state'.kind = "json"
                 /\ ~net_used'
                 /\ biom_lib =>
                       /\ \A f \in OutputFiles(dir) :
                             dir[f].sig \in DOMAIN state'.biom_sig_to_name
                       /\ \A sig \in DOMAIN state'.biom_sig_to_name :
                             LET fname == state'.biom_sig_to_name[sig]
                             IN  /\ fname \in OutputFiles(dir)
                                 /\ dir[fname].sig = sig
                 /\ ~biom_lib => DOMAIN state'.biom_sig_to_name = {}
      ]_vars

\* The first call on a directory of one file and no .state.json, the target
\* not reached: the signature is recorded and saved, the walk begins.
C10_Witness ==
    /\ ev.kind = "resume_walk"
    /\ pc = "pages"
    /\ biom_lib
    /\ committed = 0
    /\ Cardinality(OutputFiles(dir)) = 1
    /\ Cardinality(DOMAIN state.biom_sig_to_name) = 1
    /\ disk_state = save_state(state)

\* C11: a candidate whose download fails, on the BIOM or the TSV path, has
\* its link added to seen_links and saved; nothing is committed (saved,
\* next_idx and the output files are unchanged) and the walk goes on with the
\* next analysis.
C11_DownloadFailureRecorded ==
    [][ ev'.kind \in {"biom_dl_fail", "tsv_dl_fail"} =>
           /\ ev'.link \in state'.seen_links
           /\ disk_state' = save_state(state')
           /\ ev'.link \in SeqToSet(disk_state'.seen_links)
           /\ saved' = saved
           /\ next_idx' = next_idx
           /\ committed' = committed
           /\ dir' = dir
           /\ pc' = "analyses"
           /\ an_cnt' = an_cnt + 1
      ]_vars

\* A failed download on the TSV path after a failed download on the BIOM
\* path: both links are saved, nothing is counted.
C11_Witness ==
    /\ ev.kind = "tsv_dl_fail"
    /\ pc = "analyses"
    /\ an_cnt = 2
    /\ state.seen_links = Links
    /\ SeqToSet(disk_state.seen_links) = Links
    /\ committed = 0
    /\ saved = saved0

\* C12: a candidate whose TSV conversion fails (convert_tsv_to_biom gives
\* False or the converter exits with an error) has its link recorded as
\* seen, leaves no partial <class>_<n>.biom file, does not change saved, and
\* the walk goes on with the next candidate of the class.
C12_ConversionFailureRecorded ==
    [][ ev'.kind \in {"tsv_conv_false", "tsv_conv_raise"} =>
           /\ ev'.link \in state'.seen_links
           /\ OutputFiles(dir') \subseteq OutputFiles(dir)
           /\ saved' = saved
           /\ pc' = "analyses"
      ]_vars

\* C13: a runs, analyses or downloads listing whose get_json request fails
\* after its retries costs only its branch: the walk of the class goes on.
C13_FailedListingSkipsBranch ==
    [][ ev'.kind \in {"runs_raise", "analyses_raise", "downloads_raise"} =>
           pc' \in {"samples", "runs", "analyses"}
      ]_vars

\* C14: in one run no more than MAX_SAMPLE_PAGES sample pages are fetched
\* (page_i counts the pages iter_pages fetched and yielded), and the walk
\* that the cap ends returns the saved count.
C14_PageCap ==
    /\ page_i <= MAX_SAMPLE_PAGES
    /\ ev.kind = "page_cap" => (pc = "returned" /\ ret = saved)

(***************************************************************************)
(* main, lines 378-392                                                     *)
(***************************************************************************)

\* The number of classes in BIOMES (lines 20-23 hold one; more are added
\* there), taken in the order of BIOMES.items().
NumClasses == 3

\* The largest count a call of harvest_class returns.
MaxReturn == 1

\* How a call of harvest_class ends, seen from the handlers of main: with a
\* count, with subprocess.CalledProcessError, with KeyboardInterrupt, with
\* another Exception, or with a BaseException that is no Exception.
CaughtErrors == {"CalledProcessError", "Exception"}

InitMain ==
    /\ mn_pc = "loop"
    /\ mn_total = 0
    /\ mn_calls = <<>>
    /\ mn_log = <<>>
    /\ GjIdle
    /\ IxIdle
    /\ DlIdle
    /\ HvIdle
    /\ FbIdle
    /\ SgIdle

\* The class the for loop of line 381 takes next.
NextClass == Len(mn_calls) + 1

\* line 383: harvest_class is called on the next class and ends with outcome
MainCall(outcome) ==
    /\ mn_pc = "loop"
    /\ NextClass <= NumClasses
    /\ mn_calls' = Append(mn_calls, outcome)
    /\ UNCHANGED <<gjVars, ixVars, dlVars, hvVars, fbVars, sgVars>>

\* line 383: total += harvest_class(...); the next class
MainClassReturns ==
    \E n \in 0..MaxReturn :
        /\ MainCall("returned")
        /\ mn_total' = mn_total + n
        /\ UNCHANGED <<mn_pc, mn_log>>

\* lines 384-385: except subprocess.CalledProcessError: print; the next class
MainConvertError ==
    /\ MainCall("CalledProcessError")
    /\ mn_log' = Append(mn_log, [cls |-> NextClass, line |-> "convert_error"])
    /\ UNCHANGED <<mn_pc, mn_total>>

\* The mutant of MainInterrupt for C16: the handler does not break.
MainInterrupt_continue ==
    /\ MainCall("KeyboardInterrupt")
    /\ mn_log' = Append(mn_log, [cls |-> NextClass, line |-> "interrupted"])
    /\ UNCHANGED <<mn_pc, mn_total>>

\* lines 386-388: except KeyboardInterrupt: print; break
MainInterrupt ==
    /\ MainCall("KeyboardInterrupt")
    /\ mn_log' = Append(mn_log, [cls |-> NextClass, line |-> "interrupted"])
    /\ mn_pc' = "finally"
    /\ UNCHANGED mn_total

\* The mutant of MainOtherError for C15: the handler ends the loop.
MainOtherError_break ==
    /\ MainCall("Exception")
    /\ mn_log' = Append(mn_log, [cls |-> NextClass, line |-> "class_error"])
    /\ mn_pc' = "finally"
    /\ UNCHANGED mn_total

\* lines 389-390: except Exception: print; the next class
MainOtherError ==
    /\ MainCall("Exception")
    /\ mn_log' = Append(mn_log, [cls |-> NextClass, line |-> "class_error"])
    /\ UNCHANGED <<mn_pc, mn_total>>

\* lines 382-390: a BaseException none of the three handlers names (such as
\* SystemExit) leaves the inner try; the finally clause is next.
MainEscape ==
    /\ MainCall("BaseException")
    /\ mn_pc' = "finally_raise"
    /\ UNCHANGED <<mn_total, mn_log>>

\* line 381: BIOMES.items() is used up
MainLoopEnd ==
    /\ mn_pc = "loop"
    /\ NextClass > NumClasses
    /\ mn_pc' = "finally"
    /\ UNCHANGED <<mn_total, mn_calls, mn_log>>
    /\ UNCHANGED <<gjVars, ixVars, dlVars, hvVars, fbVars, sgVars>>

\* lines 391-392: finally: the summary line; main returns, or the exception
\* goes on to the caller.
MainFinally ==
    /\ mn_pc \in {"finally", "finally_raise"}
    /\ mn_log' = Append(mn_log, [cls |-> 0, line |-> "summary"])
    /\ mn_pc' = IF mn_pc = "finally" THEN "done" ELSE "escaped"
    /\ UNCHANGED <<mn_total, mn_calls>>
    /\ UNCHANGED <<gjVars, ixVars, dlVars, hvVars, fbVars, sgVars>>

NextMain ==
    \/ MainClassReturns
    \/ MainConvertError
    \/ MainInterrupt
    \/ MainOtherError
    \/ MainEscape
    \/ MainLoopEnd
    \/ MainFinally

SpecMain == InitMain /\ [][NextMain]_vars

\* The lines of one kind main has printed.
Printed(line) == {k \in 1..Len(mn_log) : mn_log[k].line = line}

\* C15: an Exception raised while one class is harvested (a converter's
\* CalledProcessError included) is caught and logged for that class, and the
\* loop goes on: the next class of BIOMES, if there is one, has been started
\* or is the next thing main does.
C15_ClassErrorDoesNotStopLoop ==
    \A k \in 1..Len(mn_calls) :
        mn_calls[k] \in CaughtErrors =>
            /\ \E j \in 1..Len(mn_log) :
                  /\ mn_log[j].cls = k
                  /\ mn_log[j].line =
                        (IF mn_calls[k] = "CalledProcessError"
                           THEN "convert_error" ELSE "class_error")
            /\ k < NumClasses =>
                  (Len(mn_calls) > k \/ (mn_pc = "loop" /\ NextClass = k + 1))
            /\ k = NumClasses => mn_pc \in {"loop", "finally", "done"}

\* The first class ends with CalledProcessError, the second with another
\* Exception, the third is harvested, and main returns.
C15_Witness ==
    /\ mn_pc = "done"
    /\ mn_calls = <<"CalledProcessError", "Exception", "returned">>
    /\ mn_total = 1
    /\ Len(mn_log) = 3

\* C16: after a KeyboardInterrupt in a class no later class is started, and
\* the summary line is printed exactly once on every way out of main (never
\* before).
C16_InterruptStopsSummaryOnce ==
    /\ \A k \in 1..Len(mn_calls) :
          mn_calls[k] = "KeyboardInterrupt" =>
              (k = Len(mn_calls) /\ mn_pc \in {"finally", "done"})
    /\ mn_pc \in {"done", "escaped"} =>
          (Cardinality(Printed("summary")) = 1
             /\ mn_log[Len(mn_log)].line = "summary")
    /\ mn_pc \notin {"done", "escaped"} => Printed("summary") = {}

\* The second of three classes is interrupted: main is over, the third class
\* was never started, the summary is the last line.
C16_Witness ==
    /\ mn_pc = "done"
    /\ mn_calls = <<"returned", "KeyboardInterrupt">>
    /\ Len(mn_calls) < NumClasses
    /\ mn_log = << [cls |-> 2, line |-> "interrupted"],
                   [cls |-> 0, line |-> "summary"] >>

(***************************************************************************)
(* find_biom_or_tsv on a downloads listing                                 *)
(***************************************************************************)

\* The items of a listing: the alias as the API gives it ("" also stands for
\* a missing alias, by `or ""`), the self link (NoLink: none).
FbAliases ==
    {"", " ", "x.biom", " X.BIOM ", "otu.tsv", "OTU.TSV", "tax.tsv",
     "otu.tsv.gz"}

FbItems == [alias : FbAliases, link : Links \cup {NoLink}]

\* The longest listing.
MaxItems == 2

FbListings == UNION { [1..n -> FbItems] : n \in 0..MaxItems }

InitFind ==
    /\ fb_pc = "call"
    /\ fb_data \in FbListings
    /\ fb_out = <<>>
    /\ GjIdle
    /\ IxIdle
    /\ DlIdle
    /\ HvIdle
    /\ MnIdle
    /\ SgIdle

\* lines 293 and 296: the four results, and candidate_link
FbCall ==
    /\ fb_pc = "call"
    /\ fb_pc' = "done"
    /\ fb_out' = [found |-> find_biom_or_tsv(fb_data),
                  candidate |-> CandidateLink(find_biom_or_tsv(fb_data))]
    /\ UNCHANGED fb_data
    /\ UNCHANGED <<gjVars, ixVars, dlVars, hvVars, mnVars, sgVars>>

SpecFind == InitFind /\ [][FbCall]_vars

\* The places of a listing that hold a binary table: a non-empty alias that
\* ends in .biom, whatever its case, and a self link.
BinaryAt(data) ==
    {i \in 1..Len(data) :
        data[i].alias \in {"x.biom", " X.BIOM "} /\ data[i].link # NoLink}

\* The places that hold an OTU text table: an alias with "otu" in it that
\* ends in .tsv, whatever its case, and a self link.
OtuTextAt(data) ==
    {i \in 1..Len(data) :
        data[i].alias \in {"otu.tsv", "OTU.TSV"} /\ data[i].link # NoLink}

First(S) == CHOOSE i \in S : \A j \in S : i <= j

\* C17: when the listing holds a binary table, biom_url is the link of the
\* first one in listing order, and so is the candidate link, whatever text
\* tables the listing holds.
C17_BinaryPreferred ==
    (fb_pc = "done" /\ BinaryAt(fb_data) # {}) =>
        /\ fb_out.found.biom_url = fb_data[First(BinaryAt(fb_data))].link
        /\ fb_out.candidate = fb_data[First(BinaryAt(fb_data))].link

\* Two binary tables with different links, the first with an alias in upper
\* case and padded with blanks: the first link is the candidate.
C17_Witness ==
    /\ fb_pc = "done"
    /\ Len(fb_data) = 2
    /\ fb_data[1].alias = " X.BIOM "
    /\ fb_data[2].alias = "x.biom"
    /\ fb_data[1].link = 2
    /\ fb_data[2].link = 1
    /\ fb_out.candidate = 2

\* C18: a tsv_url that is returned is the link of the first OTU text table of
\* the listing, and it is returned when the listing holds no binary table;
\* a biom_url that is returned is the link of a binary table; an item
\* without alias or without link is never returned; with no binary and no
\* OTU text table all four results are None.
C18_TextFallback ==
    fb_pc = "done" =>
        LET B == BinaryAt(fb_data)
            T == OtuTextAt(fb_data)
            found == fb_out.found
        IN  /\ found.tsv_url # NoLink =>
                  (T # {} /\ found.tsv_url = fb_data[First(T)].link
                          /\ found.tsv_alias # NoAlias)
            /\ (B = {} /\ T # {}) =>
                  found.tsv_url = fb_data[First(T)].link
            /\ found.biom_url # NoLink =>
                  (B # {} /\ found.biom_alias # NoAlias)
            /\ found.tsv_url = NoLink => found.tsv_alias = NoAlias
            /\ found.biom_url = NoLink => found.biom_alias = NoAlias
            /\ (B = {} /\ T = {}) =>
                  (found = NothingFound /\ fb_out.candidate = NoLink)

\* A taxonomy table, then an OTU table in upper case: the second is the
\* fallback.
C18_Witness ==
    /\ fb_pc = "done"
    /\ Len(fb_data) = 2
    /\ fb_data[1] = [alias |-> "tax.tsv", link |-> 1]
    /\ fb_data[2] = [alias |-> "OTU.TSV", link |-> 2]
    /\ fb_out.found.tsv_url = 2
    /\ fb_out.found.biom_url = NoLink
    /\ fb_out.candidate = 2

\* C19: without the table library (compute_biom_signature gives None) no
\* call ends on a signature and no candidate is dropped as a duplicate:
\* a downloaded candidate (converted, on the TSV path) is committed under
\* next_idx and counted, biom_sig_to_name is left as it is, and the link is
\* added to seen_links and saved.
C19_NoLibraryStillCommits ==
    [][ ~biom_lib =>
           /\ ev'.kind \notin {"start_raise", "biom_sig_raise", "biom_dup",
                               "tsv_dup"}
           /\ ev'.kind \in {"biom_commit", "tsv_commit"} =>
                 /\ OutName(next_idx) \in DOMAIN dir'
                 /\ saved' = saved + 1
                 /\ next_idx' = next_idx + 1
                 /\ state'.biom_sig_to_name = state.biom_sig_to_name
                 /\ ev'.link \in state'.seen_links
                 /\ ev'.link \in SeqToSet(disk_state'.seen_links)
                 /\ pc' # "raised"
      ]_vars

\* Without the library the same table is committed twice, from two links:
\* no signature is recorded, both links are seen.
C19_Witness ==
    /\ ~biom_lib
    /\ ev.kind = "biom_commit"
    /\ DOMAIN init_dir = {}
    /\ committed = 2
    /\ OutputFiles(dir) = {OutName(1), OutName(2)}
    /\ dir[OutName(1)] = dir[OutName(2)]
    /\ dir[OutName(1)] \in Tables
    /\ DOMAIN state.biom_sig_to_name = {}
    /\ state.seen_links = Links

(***************************************************************************)
(* compute_biom_signature on a table, lines 149-180                        *)
(***************************************************************************)

\* The observation and sample ids are 1..NumLabels, in the order of their
\* decoded text.
NumLabels == 2

SgLabels == 1..NumLabels

\* The orders a set of ids can be stored in.
Orderings(S) ==
    {q \in [1..Cardinality(S) -> S] : \A i, j \in DOMAIN q : q[i] = q[j] => i = j}

\* The cell values of the tables, in halves, by observation r and sample c:
\* all different, one per observation, the same everywhere.
CellOf(f, r, c) ==
    CASE f = 1 -> (2 * r + c) % 4
      [] f = 2 -> r
      [] OTHER -> 1

\* A table as load_table gives it: ids in stored order, the matrix by rows.
MakeTable(f, obs, samp) ==
    [obs |-> obs, samp |-> samp,
     m |-> [i \in 1..Len(obs) |->
              [j \in 1..Len(samp) |-> CellOf(f, obs[i], samp[j])]]]

\* np.rint on a value given in halves (line 167): to the nearest integer,
\* a half to the even one.
Rint(h) ==
    IF h % 2 = 0 THEN h \div 2
    ELSE IF (h \div 2) % 2 = 0 THEN h \div 2 ELSE (h \div 2) + 1

\* The place of id x in the stored order q.
Pos(q, x) == CHOOSE i \in 1..Len(q) : q[i] = x

\* The mutant of Digest for C20: ids and matrix are hashed as stored.
Digest_unsorted(tbl) ==
    << tbl.obs, tbl.samp,
       [i \in 1..Len(tbl.obs) |->
          [j \in 1..Len(tbl.samp) |-> Rint(tbl.m[i][j])]] >>

\* lines 149-180: the rows and columns sorted by id (line 162), the values
\* rounded (lines 165-169), and the sha256 of row ids | column ids | matrix
\* bytes (lines 171-180), as the triple that is hashed.
Digest(tbl) ==
    LET rows == SortedSeq(SeqToSet(tbl.obs))
        cols == SortedSeq(SeqToSet(tbl.samp))
    IN  << rows, cols,
           [i \in 1..Len(rows) |->
              [j \in 1..Len(cols) |->
                 Rint(tbl.m[Pos(tbl.obs, rows[i])][Pos(tbl.samp, cols[j])])]] >>

\* Two stored tables with the same ids and the same cells, each in an order
\* of its own.
InitSig ==
    /\ sg_pc = "call"
    /\ \E R \in (SUBSET SgLabels) \ {{}}, C \in (SUBSET SgLabels) \ {{}},
          f \in 1..3 :
          \E o1 \in Orderings(R), o2 \in Orderings(R),
             s1 \in Orderings(C), s2 \in Orderings(C) :
              sg_in = <<MakeTable(f, o1, s1), MakeTable(f, o2, s2)>>
    /\ sg_out = <<>>
    /\ GjIdle
    /\ IxIdle
    /\ DlIdle
    /\ HvIdle
    /\ MnIdle
    /\ FbIdle

\* compute_biom_signature is called on each of the two files.
SgCompute ==
    /\ sg_pc = "call"
    /\ sg_pc' = "done"
    /\ sg_out' = <<Digest(sg_in[1]), Digest(sg_in[2])>>
    /\ UNCHANGED sg_in
    /\ UNCHANGED <<gjVars, ixVars, dlVars, hvVars, mnVars, fbVars>>

SpecSig == InitSig /\ [][SgCompute]_vars

\* C20: two tables with the same row ids, column ids and cell values, stored
\* in different orders of rows and columns, have the same digest.
C20_OrderIndependent ==
    sg_pc = "done" => sg_out[1] = sg_out[2]

\* Two by two, all cells different, rows and columns both stored the other
\* way round.
C20_Witness ==
    /\ sg_pc = "done"
    /\ sg_in[1].obs = <<1, 2>>
    /\ sg_in[2].obs = <<2, 1>>
    /\ sg_in[1].samp = <<1, 2>>
    /\ sg_in[2].samp = <<2, 1>>
    /\ sg_in[1].m = <<<<3, 0>>, <<1, 2>>>>
    /\ sg_in[2].m = <<<<2, 1>>, <<0, 3>>>>
    /\ sg_out[1] = sg_out[2]
    /\ sg_out[1][3] = <<<<2, 0>>, <<0, 1>>>>

(***************************************************************************)
(* Properties of resumed harvests, of the persisted state and of the walk  *)
(***************************************************************************)

\* Two <class>_<n>.biom files of a directory hold tables of one signature.
SameContentTwice(d) ==
    \E f, g \in OutputFiles(d) :
        /\ f # g
        /\ d[f] \in Tables
        /\ d[g] \in Tables
        /\ d[f].sig = d[g].sig

\* C21: a harvest that starts on an empty class directory with the biom
\* library available, is interrupted anywhere and resumed from the files and
\* the sidecar on disk, never holds two <class>_<n>.biom files with the same
\* content signature.
C21_NoContentTwiceAfterResume == ~SameContentTwice(dir)

\* C22: whenever harvest_class is about to evaluate a candidate, and when it
\* has returned, the seen_links and biom_sig_to_name in .state.json are those
\* of the in-memory state, and load_state of the file gives that state back
\* (the file is not damaged from outside in between).
C22_StatePersisted ==
    (pc \in {"analyses", "returned"} /\ ev.kind # "env_corrupt") =>
        /\ disk_state = save_state(state)
        /\ load_state(disk_state) = state

\* C22 witness: the next candidate is about to be evaluated after a commit
\* that recorded a link and a signature.
C22_Witness ==
    /\ pc = "analyses"
    /\ ev.kind = "tsv_commit"
    /\ ev.link \in state.seen_links
    /\ DOMAIN state.biom_sig_to_name # {}
    /\ load_state(disk_state) = state

\* Every filename recorded in a signature map is a file of the directory.
RecordedFilesExist(st, d) ==
    \A sig \in DOMAIN st.biom_sig_to_name :
        st.biom_sig_to_name[sig] \in DOMAIN d

\* C23: no file is removed from outside; after every step every value of
\* biom_sig_to_name names a file that is in the class directory, and within
\* one call of harvest_class a signature that has a recorded filename keeps
\* that filename.
C23_RecordedFilesStay ==
    [][ /\ RecordedFilesExist(state', dir')
        /\ ev'.kind \notin StartKinds =>
              \A sig \in DOMAIN state.biom_sig_to_name :
                  /\ sig \in DOMAIN state'.biom_sig_to_name
                  /\ state'.biom_sig_to_name[sig] = state.biom_sig_to_name[sig]
      ]_vars

\* C23 witness: a commit has just recorded a second signature next to one
\* recorded earlier, and both recorded files are in the directory.
C23_Witness ==
    /\ ev.kind \in {"biom_commit", "tsv_commit"}
    /\ Cardinality(DOMAIN state.biom_sig_to_name) = 2
    /\ RecordedFilesExist(state, dir)

\* The committed files of the running call and of the calls before it: the
\* <class>_<n>.biom files whose index is at most saved.
CommittedFiles == {f \in OutputFiles(dir) : f.idx <= saved}

\* C24: no step, of the same call or of a later call of harvest_class,
\* removes or rewrites a <class>_<n>.biom file whose index is at most saved;
\* a step that downloads writes only names of a strictly larger index.
C24_CommittedFilesUntouched ==
    [][ /\ \A f \in CommittedFiles : f \in DOMAIN dir' /\ dir'[f] = dir[f]
        /\ ev'.kind \in DownloadKinds =>
              \A f \in DOMAIN dir' :
                  (f \notin DOMAIN dir \/ dir'[f] # dir[f]) =>
                      \A g \in CommittedFiles : f.idx > g.idx
      ]_vars

\* C24 witness: a second call of harvest_class has committed a file next to
\* one committed by the call before it, which is unchanged.
C24_Witness ==
    /\ ev.kind \in {"biom_commit", "tsv_commit"}
    /\ saved0 >= 1
    /\ committed >= 2
    /\ Cardinality(OutputFiles(dir)) >= 2
    /\ DOMAIN init_dir = {}

\* The temporary files of candidate evaluations in a directory:
\* <class>_<n>.biom.tmp and __tmp_<class>_<n>.tsv.
TempFiles(d) ==
    {f \in DOMAIN d : \E i \in 1..(f.idx) : f \in {TmpName(i), TmpTsvName(i)}}

\* C25: when the evaluation of a candidate has ended, on any outcome, no
\* temporary file of it is left in the class directory.
C25_NoTemporaryLeft == TempFiles(dir) = {}

\* The events of the steps that committed a file.
CommitKinds == {"biom_commit", "tsv_commit"}

\* C26: in a call that starts with saved below n_target, saved never exceeds
\* n_target, a step that called download_file_atomic began with saved below
\* n_target, and the returned count is at most n_target.
C26_TargetNotExceeded ==
    (pc # "idle" /\ saved0 < n_target) =>
        /\ saved <= n_target
        /\ ev.kind \in DownloadKinds =>
              (IF ev.kind \in CommitKinds THEN saved - 1 ELSE saved) < n_target
        /\ pc = "returned" => ret <= n_target

\* C26 witness: a commit on the TSV path, which has no break of its own, has
\* brought saved to n_target and the analyses loop is about to go on.
C26_Witness ==
    /\ pc = "analyses"
    /\ ev.kind = "tsv_commit"
    /\ saved0 < n_target
    /\ saved = n_target
    /\ an_cnt < MAX_ANALYSES_PER_RUN

\* C27: within one sample at most MAX_RUNS_PER_SAMPLE runs are looked at, so
\* at most that many have their analyses requested, and within one run at
\* most MAX_ANALYSES_PER_RUN analyses are looked at, so at most that many
\* have their downloads listing requested; a request for analyses is made
\* for a run counted by run_cnt.
C27_FanOutCaps ==
    /\ run_cnt \in 0..MAX_RUNS_PER_SAMPLE
    /\ an_cnt \in 0..MAX_ANALYSES_PER_RUN
    /\ ev.kind = "analyses" => run_cnt >= 1
    /\ (ev.kind \in DownloadKinds /\ pc = "analyses") => an_cnt >= 1

\* C27 witness: the analyses list of a run was cut at MAX_ANALYSES_PER_RUN
\* while the run was the last one allowed for its sample.
C27_Witness ==
    /\ ev.kind = "analysis_cap"
    /\ run_cnt = MAX_RUNS_PER_SAMPLE
    /\ pc = "runs"

\* C28: the saved count a call of harvest_class has just derived from the
\* class directory equals the number of <class>_<n>.biom files in it.
C28_SavedIsFileCount ==
    ev.kind \in {"resume_done", "resume_walk"} =>
        saved0 = Cardinality(OutputFiles(dir))

====
